---- MODULE Spec2Model ----
(***************************************************************************)
(* JB::EMR::StepConcurrencyLevel resource provider                         *)
(* (src/jb_emr_stepconcurrencylevel/handlers.py).                           *)
(*                                                                         *)
(* The four handlers (create, read, update, delete) are modelled as        *)
(* sequences of steps; a step is the local code that runs up to and        *)
(* including one call of the EMR API (describe_cluster, modify_cluster,    *)
(* add_tags, remove_tags).  Every API call may raise.  The remote clusters *)
(* are the only state shared between invocations.                          *)
(***************************************************************************)
EXTENDS Integers, Sequences, FiniteSets, TLC

(***************************************************************************)
(* Inputs and program constants                                            *)
(***************************************************************************)

\* The clusters of the remote side, which are the ClusterIds requests name.
ClusterIds == {"j-1"}

\* The ClusterId of a cluster that is not managed here: its UID is the
\* foreign value an ownership tag or a model may carry.
OtherClusterId == "j-2"

\* Python's None (a missing UID in a model, the result of get_uid when the
\* cluster carries no StepConcurrencyUID tag).
None == "<None>"

\* handlers.py:126 and 195: the range of a valid StepConcurrencyLevel.
MinLevel == 1
MaxLevel == 256

\* handlers.py:253: the level Delete resets the cluster to.
DefaultLevel == 1

\* The StepConcurrencyLevel of a request arrives as a decimal numeral (the
\* handlers pass it through int()); a numeral is its sequence of digits.
RawLevels == {<<0>>, <<1>>, <<5, 0>>, <<2, 5, 6>>, <<2, 5, 7>>}

\* The error texts of the exceptions an EMR API call may raise.
Errors == {"ThrottlingException", "AccessDeniedException"}

\* The invocations that may be in flight at once, and the one slot that a
\* caller who waits for each result uses.
Procs == {1, 2}
SeqProcs == {1}

(***************************************************************************)
(* Pure helpers                                                            *)
(***************************************************************************)

\* int(model.StepConcurrencyLevel) on a decimal numeral.
RECURSIVE int(_)
int(s) ==
    IF s = <<>> THEN 0
    ELSE int(SubSeq(s, 1, Len(s) - 1)) * 10 + s[Len(s)]

\* UID with the ClusterId left out.
UID_IgnoresClusterId(clusterId) == "cluster:"

\* handlers.py:120: model.UID = "cluster:" + model.ClusterId
UID(clusterId) == "cluster:" \o clusterId

\* The UID values a caller may put in a model.
UidValues == {None} \cup {UID(c) : c \in ClusterIds \cup {OtherClusterId}}

\* The number of tags of other keys that a cluster carries besides the
\* ownership tag, and their keys.
NumOtherTags == 1
OtherTagKeys == <<"Name", "Owner", "Stage">>

\* The tags of other keys of cluster c; they come first in its tag list.
OtherTagsOf(c) ==
    [i \in 1..NumOtherTags |-> [Key |-> OtherTagKeys[i], Value |-> UID(c)]]

UidTag(v) == [Key |-> "StepConcurrencyUID", Value |-> v]

\* handlers.py:64-72: the value of the first tag keyed StepConcurrencyUID,
\* or None.
RECURSIVE get_uid_scan(_)
get_uid_scan(tags) ==
    IF tags = <<>> THEN None
    ELSE IF Head(tags).Key = "StepConcurrencyUID" THEN Head(tags).Value
    ELSE get_uid_scan(Tail(tags))

\* get_uid applied to the response of a successful describe_cluster.
get_uid(response) == get_uid_scan(response.Tags)

\* handlers.py:89
get_concurrency_level(response) == response.StepConcurrencyLevel

\* OutOfRange with the upper bound off by one.
OutOfRange_UpperExclusive(level) == level < MinLevel \/ level >= MaxLevel

\* OutOfRange without the lower bound.
OutOfRange_NoLowerBound(level) == level > MaxLevel

\* handlers.py:126 and 195: the range test of Create and Update.
OutOfRange(level) == level < MinLevel \/ level > MaxLevel

(***************************************************************************)
(* The EMR API, as the handlers use it                                     *)
(***************************************************************************)

\* client.describe_cluster(ClusterId=c)["Cluster"]
describe_cluster(cl, c) == cl[c]

\* client.modify_cluster(ClusterId=c, StepConcurrencyLevel=level)
modify_cluster(cl, c, level) ==
    [cl EXCEPT ![c].StepConcurrencyLevel = level]

\* client.add_tags(ResourceId=c, Tags=[tag]): a tag of an existing key
\* replaces its value, a tag of a new key is added.
add_tags(cl, c, tag) ==
    LET old == cl[c].Tags
        has == \E i \in 1..Len(old) : old[i].Key = tag.Key
        new == IF has
               THEN [i \in 1..Len(old) |->
                        IF old[i].Key = tag.Key THEN tag ELSE old[i]]
               ELSE Append(old, tag)
    IN  [cl EXCEPT ![c].Tags = new]

\* client.remove_tags(ResourceId=c, TagKeys=[key])
remove_tags(cl, c, key) ==
    LET Keep(t) == t.Key # key
    IN  [cl EXCEPT ![c].Tags = SelectSeq(cl[c].Tags, Keep)]

(***************************************************************************)
(* State                                                                   *)
(***************************************************************************)

VARIABLES
    Cluster,    \* the remote clusters: ClusterId -> [Tags, StepConcurrencyLevel]
    pc,         \* per invocation slot: the next step of its handler
    request,    \* per slot: the ResourceHandlerRequest of the invocation
    progress,   \* per slot: the ProgressEvent / raised error of the invocation
    calls,      \* per slot: the EMR API calls the invocation has issued
    before,     \* per slot: the remote clusters when the invocation began
    prev,       \* the Create or Delete, if it was one, that returned last
                \* before the latest invocation began
    created     \* clusters claimed by a successful Create and no Delete since

vars == <<Cluster, pc, request, progress, calls, before, prev, created>>

\* A request: desiredResourceState (ClusterId, StepConcurrencyLevel, UID) and
\* the UID of previousResourceState.
Request(action, c, raw, uid, prevUid) ==
    [action |-> action, ClusterId |-> c, StepConcurrencyLevel |-> raw,
     UID |-> uid, previousUID |-> prevUid]

NoRequest == Request("NONE", "", <<>>, None, None)

\* A resource model as a handler leaves it.
Model(c, level, uid) ==
    [ClusterId |-> c, StepConcurrencyLevel |-> level, UID |-> uid]

\* ProgressEvent(status=IN_PROGRESS, resourceModel=model); resourceModel is
\* <<model>>, or <<>> for None.
InProgress == [status |-> "IN_PROGRESS", resourceModel |-> <<>>,
               errorCode |-> "", message |-> ""]

\* Success with the status left as the handler initialised it.
Success_StatusNotSet(m) == [status |-> "IN_PROGRESS", resourceModel |-> m,
                            errorCode |-> "", message |-> ""]

\* handlers.py:152, 210, 267, 305: progress.status = OperationStatus.SUCCESS
Success(m) == [status |-> "SUCCESS", resourceModel |-> m,
               errorCode |-> "", message |-> ""]

\* raise exceptions.<kind>(message): the invocation ends without a model.
Raise(kind, message) == [status |-> "FAILED", resourceModel |-> <<>>,
                         errorCode |-> kind, message |-> message]

\* An exception of an EMR call that no handler code catches: it leaves the
\* handler as it is, with its own text.
Escape(err) == Raise("Unhandled", err)

\* FailedMessage without the text of the underlying error.
FailedMessage_NoErrorText(operation, err) == "Failed " \o operation

\* The message of the InternalFailure a handler raises from its except clause.
FailedMessage(operation, err) == "Failed " \o operation \o ": " \o err

\* The error field of a call that returned normally.
Returned_OK == ""

\* One entry of the log of issued API calls: the call, its arguments, and
\* the text of the exception it raised (Returned_OK if none).
Call(api, c, level, tags, keys, error) ==
    [api |-> api, ClusterId |-> c, StepConcurrencyLevel |-> level,
     Tags |-> tags, TagKeys |-> keys, error |-> error]

DescribeCall(c, error) == Call("describe_cluster", c, 0, <<>>, <<>>, error)
ModifyCall(c, level, error) ==
    Call("modify_cluster", c, level, <<>>, <<>>, error)
AddTagsCall(c, tag, error) == Call("add_tags", c, 0, <<tag>>, <<>>, error)
RemoveTagsCall(c, key, error) ==
    Call("remove_tags", c, 0, <<>>, <<key>>, error)

\* What is kept of an invocation that has returned, when it was a Create or a
\* Delete: the request, with the desired model as the handler left it, the
\* event without its message, the API call that raised, if one did, and, for
\* a Create, the value of the ownership tag in the remote state cl in which
\* it began.
Returned(req, e, log, cl) ==
    IF req.action \in {"CREATE", "DELETE"}
    THEN [request |-> [req EXCEPT
                        !.UID = IF req.action = "CREATE"
                                THEN UID(req.ClusterId) ELSE @],
          progress |-> [e EXCEPT !.message = ""],
          raised |-> IF log # <<>> /\ log[Len(log)].error # Returned_OK
                     THEN log[Len(log)].api ELSE "",
          observed |-> IF req.action = "CREATE"
                       THEN get_uid(describe_cluster(cl, req.ClusterId))
                       ELSE None]
    ELSE [request |-> NoRequest, progress |-> InProgress, raised |-> "",
          observed |-> None]

\* The remote clusters before any invocation: the tags of other keys, then
\* the ownership tag absent, the cluster's own UID, or another UID; the
\* default level.
InitialTags(c) ==
    {OtherTagsOf(c)}
        \cup {Append(OtherTagsOf(c), UidTag(v)) : v \in UidValues \ {None}}

\* handlers.py:99: a cluster starts at the default level.
InitialLevels == {DefaultLevel}

InitialClusters ==
    {cl \in [ClusterIds ->
                [Tags : UNION {InitialTags(c) : c \in ClusterIds},
                 StepConcurrencyLevel : InitialLevels]] :
        \A c \in ClusterIds : cl[c].Tags \in InitialTags(c)}

Init ==
    /\ Cluster \in InitialClusters
    /\ pc = [p \in Procs |-> "idle"]
    /\ request = [p \in Procs |-> NoRequest]
    /\ progress = [p \in Procs |-> InProgress]
    /\ calls = [p \in Procs |-> <<>>]
    /\ before = [p \in Procs |-> <<>>]
    /\ prev = Returned(NoRequest, InProgress, <<>>, <<>>)
    /\ created = {}

(***************************************************************************)
(* Steps common to the handlers                                            *)
(***************************************************************************)

\* The runtime invokes a handler with a request: the slot's previous result,
\* if any, has been returned to the caller.
Begin(p, req, e, next) ==
    /\ pc[p] \in {"idle", "done"}
    /\ pc' = [pc EXCEPT ![p] = next]
    /\ request' = [request EXCEPT ![p] = req]
    /\ progress' = [progress EXCEPT ![p] = e]
    /\ calls' = [calls EXCEPT ![p] = <<>>]
    /\ before' = [before EXCEPT ![p] = Cluster]
    /\ prev' = IF pc[p] = "done"
               THEN Returned(request[p], progress[p], calls[p], before[p])
               ELSE prev

\* The handler of slot p ends with the event or the raised error e.
Finish(p, e) ==
    /\ progress' = [progress EXCEPT ![p] = e]
    /\ pc' = [pc EXCEPT ![p] = "done"]

\* The handler of slot p goes on to the step named next.
Goto(p, next) ==
    /\ pc' = [pc EXCEPT ![p] = next]
    /\ UNCHANGED progress

Issue(p, call) == calls' = [calls EXCEPT ![p] = Append(@, call)]

At(p, action, step) == pc[p] = step /\ request[p].action = action

(***************************************************************************)
(* create_handler, handlers.py:93-157                                      *)
(***************************************************************************)

\* CreateModel with the UID of the request kept instead of derived.
CreateModel_KeepsRequestUID(req) ==
    Model(req.ClusterId, int(req.StepConcurrencyLevel), req.UID)

\* handlers.py:115-121: the model after the UID is derived and the level
\* converted.
CreateModel(req) ==
    Model(req.ClusterId, int(req.StepConcurrencyLevel), UID(req.ClusterId))

\* CreateReconcile without the collision check.
CreateReconcile_NoCollisionTest(uid, model) ==
    IF OutOfRange(model.StepConcurrencyLevel) THEN "InvalidRequest" ELSE "OK"

\* CreateReconcile in a handler that refuses a cluster claimed under another
\* UID.
CreateReconcile_RejectsForeign(uid, model) ==
    IF uid # None THEN "AlreadyExists"
    ELSE IF OutOfRange(model.StepConcurrencyLevel) THEN "InvalidRequest"
    ELSE "OK"

\* CreateReconcile with the range check made before the collision check.
CreateReconcile_RangeFirst(uid, model) ==
    IF OutOfRange(model.StepConcurrencyLevel) THEN "InvalidRequest"
    ELSE IF uid = model.UID THEN "AlreadyExists"
    ELSE "OK"

\* handlers.py:124-129: the checks of Create on the observed tag value uid.
CreateReconcile(uid, model) ==
    IF uid = model.UID THEN "AlreadyExists"
    ELSE IF OutOfRange(model.StepConcurrencyLevel) THEN "InvalidRequest"
    ELSE "OK"

LevelMessage == "Step Concurency Level must be between 1 and 256"

CreateBegin(p, c, raw, uid) ==
    /\ Begin(p, Request("CREATE", c, raw, uid, None), InProgress, "get_uid")
    /\ UNCHANGED <<Cluster, created>>

\* handlers.py:122-129: get_uid, then the collision and range checks.
CreateGetUid(p) ==
    /\ At(p, "CREATE", "get_uid")
    /\ LET c == request[p].ClusterId
           model == CreateModel(request[p])
           uid == get_uid(describe_cluster(Cluster, c))
           verdict == CreateReconcile(uid, model)
       IN  \/ \E err \in Errors :
                /\ Issue(p, DescribeCall(c, err))
                /\ Finish(p, Escape(err))
           \/ /\ Issue(p, DescribeCall(c, Returned_OK))
              /\ CASE verdict = "AlreadyExists" ->
                        Finish(p, Raise("AlreadyExists", model.ClusterId))
                   [] verdict = "InvalidRequest" ->
                        Finish(p, Raise("InvalidRequest", LevelMessage))
                   [] OTHER -> Goto(p, "modify_cluster")
    /\ UNCHANGED <<Cluster, request, before, prev, created>>

\* CreateModifyCluster in a handler that writes the tag before the level: when
\* modify_cluster raises, the ownership tag is already on the cluster.
CreateModifyCluster_TagFirst(p) ==
    /\ At(p, "CREATE", "modify_cluster")
    /\ LET c == request[p].ClusterId
           model == CreateModel(request[p])
       IN  \/ \E err \in Errors :
                /\ Issue(p, ModifyCall(c, model.StepConcurrencyLevel, err))
                /\ Finish(p, Raise("InternalFailure",
                                   FailedMessage("Create", err)))
                /\ Cluster' = add_tags(Cluster, c, UidTag(model.UID))
           \/ /\ Issue(p, ModifyCall(c, model.StepConcurrencyLevel,
                                     Returned_OK))
              /\ Cluster' = modify_cluster(Cluster, c,
                                           model.StepConcurrencyLevel)
              /\ Goto(p, "add_tags")
    /\ UNCHANGED <<request, before, prev, created>>

\* handlers.py:131-139
CreateModifyCluster(p) ==
    /\ At(p, "CREATE", "modify_cluster")
    /\ LET c == request[p].ClusterId
           model == CreateModel(request[p])
       IN  \/ \E err \in Errors :
                /\ Issue(p, ModifyCall(c, model.StepConcurrencyLevel, err))
                /\ Finish(p, Raise("InternalFailure",
                                   FailedMessage("Create", err)))
                /\ UNCHANGED Cluster
           \/ /\ Issue(p, ModifyCall(c, model.StepConcurrencyLevel, Returned_OK))
              /\ Cluster' = modify_cluster(Cluster, c,
                                           model.StepConcurrencyLevel)
              /\ Goto(p, "add_tags")
    /\ UNCHANGED <<request, before, prev, created>>

\* CreateAddTags in a handler that puts the former level back when add_tags
\* raises.
CreateAddTags_RollsBack(p) ==
    /\ At(p, "CREATE", "add_tags")
    /\ LET c == request[p].ClusterId
           model == CreateModel(request[p])
           tag == UidTag(model.UID)
           former == before[p][c].StepConcurrencyLevel
       IN  \/ \E err \in Errors :
                /\ calls' = [calls EXCEPT ![p] =
                                @ \o <<AddTagsCall(c, tag, err),
                                       ModifyCall(c, former, Returned_OK)>>]
                /\ Finish(p, Raise("InternalFailure",
                                   FailedMessage("Create", err)))
                /\ Cluster' = modify_cluster(Cluster, c, former)
                /\ UNCHANGED created
           \/ /\ Issue(p, AddTagsCall(c, tag, Returned_OK))
              /\ Cluster' = add_tags(Cluster, c, tag)
              /\ Finish(p, Success(<<model>>))
              /\ created' = created \cup {c}
    /\ UNCHANGED <<request, before, prev>>

\* handlers.py:140-157
CreateAddTags(p) ==
    /\ At(p, "CREATE", "add_tags")
    /\ LET c == request[p].ClusterId
           model == CreateModel(request[p])
           tag == UidTag(model.UID)
       IN  \/ \E err \in Errors :
                /\ Issue(p, AddTagsCall(c, tag, err))
                /\ Finish(p, Raise("InternalFailure",
                                   FailedMessage("Create", err)))
                /\ UNCHANGED <<Cluster, created>>
           \/ /\ Issue(p, AddTagsCall(c, tag, Returned_OK))
              /\ Cluster' = add_tags(Cluster, c, tag)
              /\ Finish(p, Success(<<model>>))
              /\ created' = created \cup {c}
    /\ UNCHANGED <<request, before, prev>>

(***************************************************************************)
(* update_handler, handlers.py:161-215                                     *)
(***************************************************************************)

\* handlers.py:181-192
UpdateModel(req) ==
    Model(req.ClusterId, int(req.StepConcurrencyLevel), req.UID)

\* UpdateValidate without the test of the UID.
UpdateValidate_NoUidTest(model, previousUID) ==
    IF OutOfRange(model.StepConcurrencyLevel)
    THEN "Step Concurency Level must be between 1 and 256"
    ELSE "OK"

\* handlers.py:193-198: the checks of Update made before any remote call.
UpdateValidate(model, previousUID) ==
    IF model.UID # previousUID THEN "Cannot update the UID"
    ELSE IF OutOfRange(model.StepConcurrencyLevel) THEN LevelMessage
    ELSE "OK"

\* handlers.py:199: the ownership test of Update.
UpdateNotFound(model, uid) == model.UID # uid

\* handlers.py:181-198: the checks made before any remote call.
UpdateBegin(p, c, raw, uid, prevUid) ==
    /\ LET req == Request("UPDATE", c, raw, uid, prevUid)
           verdict == UpdateValidate(UpdateModel(req), prevUid)
       IN  IF verdict = "OK"
           THEN Begin(p, req, InProgress, "get_uid")
           ELSE Begin(p, req, Raise("InvalidRequest", verdict), "done")
    /\ UNCHANGED <<Cluster, created>>

\* handlers.py:199-200
UpdateGetUid(p) ==
    /\ At(p, "UPDATE", "get_uid")
    /\ LET c == request[p].ClusterId
           model == UpdateModel(request[p])
           uid == get_uid(describe_cluster(Cluster, c))
       IN  \/ \E err \in Errors :
                /\ Issue(p, DescribeCall(c, err))
                /\ Finish(p, Escape(err))
           \/ /\ Issue(p, DescribeCall(c, Returned_OK))
              /\ IF UpdateNotFound(model, uid)
                 THEN Finish(p, Raise("NotFound", model.ClusterId))
                 ELSE Goto(p, "modify_cluster")
    /\ UNCHANGED <<Cluster, request, before, prev, created>>

\* UpdateModifyCluster in a handler that writes the ownership tag again after
\* the level.
UpdateModifyCluster_RewritesTag(p) ==
    /\ At(p, "UPDATE", "modify_cluster")
    /\ LET c == request[p].ClusterId
           model == UpdateModel(request[p])
           tag == UidTag(model.UID)
       IN  \/ \E err \in Errors :
                /\ Issue(p, ModifyCall(c, model.StepConcurrencyLevel, err))
                /\ Finish(p, Raise("InternalFailure",
                                   FailedMessage("Update", err)))
                /\ UNCHANGED Cluster
           \/ /\ calls' = [calls EXCEPT ![p] =
                            @ \o <<ModifyCall(c, model.StepConcurrencyLevel,
                                              Returned_OK),
                                   AddTagsCall(c, tag, Returned_OK)>>]
              /\ Cluster' = add_tags(modify_cluster(Cluster, c,
                                            model.StepConcurrencyLevel),
                                     c, tag)
              /\ Finish(p, Success(<<model>>))
    /\ UNCHANGED <<request, before, prev, created>>

\* handlers.py:201-215
UpdateModifyCluster(p) ==
    /\ At(p, "UPDATE", "modify_cluster")
    /\ LET c == request[p].ClusterId
           model == UpdateModel(request[p])
       IN  \/ \E err \in Errors :
                /\ Issue(p, ModifyCall(c, model.StepConcurrencyLevel, err))
                /\ Finish(p, Raise("InternalFailure",
                                   FailedMessage("Update", err)))
                /\ UNCHANGED Cluster
           \/ /\ Issue(p, ModifyCall(c, model.StepConcurrencyLevel, Returned_OK))
              /\ Cluster' = modify_cluster(Cluster, c,
                                           model.StepConcurrencyLevel)
              /\ Finish(p, Success(<<model>>))
    /\ UNCHANGED <<request, before, prev, created>>

(***************************************************************************)
(* delete_handler, handlers.py:219-272                                     *)
(***************************************************************************)

\* handlers.py:245: the ownership test of Delete.
DeleteNotFound(model, uid) == uid # model.UID

DeleteBegin(p, c, uid) ==
    /\ Begin(p, Request("DELETE", c, <<1>>, uid, None), InProgress, "get_uid")
    /\ created' = created \ {c}
    /\ UNCHANGED Cluster

\* DeleteGetUid in a handler that resets the level before it tests ownership.
DeleteGetUid_ModifiesFirst(p) ==
    /\ At(p, "DELETE", "get_uid")
    /\ LET c == request[p].ClusterId
           uid == get_uid(describe_cluster(Cluster, c))
       IN  \/ \E err \in Errors :
                /\ Issue(p, DescribeCall(c, err))
                /\ Finish(p, Escape(err))
                /\ UNCHANGED Cluster
           \/ /\ calls' = [calls EXCEPT ![p] =
                            @ \o <<DescribeCall(c, Returned_OK),
                                   ModifyCall(c, DefaultLevel, Returned_OK)>>]
              /\ Cluster' = modify_cluster(Cluster, c, DefaultLevel)
              /\ IF DeleteNotFound(request[p], uid)
                 THEN Finish(p, Raise("NotFound", c))
                 ELSE Goto(p, "remove_tags")
    /\ UNCHANGED <<request, before, prev, created>>

\* handlers.py:245-246
DeleteGetUid(p) ==
    /\ At(p, "DELETE", "get_uid")
    /\ LET c == request[p].ClusterId
           uid == get_uid(describe_cluster(Cluster, c))
       IN  \/ \E err \in Errors :
                /\ Issue(p, DescribeCall(c, err))
                /\ Finish(p, Escape(err))
           \/ /\ Issue(p, DescribeCall(c, Returned_OK))
              /\ IF DeleteNotFound(request[p], uid)
                 THEN Finish(p, Raise("NotFound", c))
                 ELSE Goto(p, "modify_cluster")
    /\ UNCHANGED <<Cluster, request, before, prev, created>>

\* handlers.py:247-258
DeleteModifyCluster(p) ==
    /\ At(p, "DELETE", "modify_cluster")
    /\ LET c == request[p].ClusterId
       IN  \/ \E err \in Errors :
                /\ Issue(p, ModifyCall(c, DefaultLevel, err))
                /\ Finish(p, Raise("InternalFailure",
                                   FailedMessage("Delete", err)))
                /\ UNCHANGED Cluster
           \/ /\ Issue(p, ModifyCall(c, DefaultLevel, Returned_OK))
              /\ Cluster' = modify_cluster(Cluster, c, DefaultLevel)
              /\ Goto(p, "remove_tags")
    /\ UNCHANGED <<request, before, prev, created>>

\* DeleteResult with the model of the request left in the event.
DeleteResult_KeepsModel(model) ==
    Success(<<Model(model.ClusterId, DefaultLevel, model.UID)>>)

\* handlers.py:258-272: the resulting model of a successful Delete is None.
DeleteResult(model) == Success(<<>>)

DeleteRemoveTags(p) ==
    /\ At(p, "DELETE", "remove_tags")
    /\ LET c == request[p].ClusterId
       IN  \/ \E err \in Errors :
                /\ Issue(p, RemoveTagsCall(c, "StepConcurrencyUID", err))
                /\ Finish(p, Raise("InternalFailure",
                                   FailedMessage("Delete", err)))
                /\ UNCHANGED Cluster
           \/ /\ Issue(p, RemoveTagsCall(c, "StepConcurrencyUID", Returned_OK))
              /\ Cluster' = remove_tags(Cluster, c, "StepConcurrencyUID")
              /\ Finish(p, DeleteResult(request[p]))
    /\ UNCHANGED <<request, before, prev, created>>

(***************************************************************************)
(* read_handler, handlers.py:276-307                                       *)
(***************************************************************************)

\* ReadNotFound without the comparison: every Read passes the ownership test.
ReadNotFound_Never(model, uid) == FALSE

\* handlers.py:295: the ownership test of Read.
ReadNotFound(model, uid) == model.UID # uid

ReadBegin(p, c, uid) ==
    /\ Begin(p, Request("READ", c, <<1>>, uid, None), InProgress, "get_uid")
    /\ UNCHANGED <<Cluster, created>>

\* handlers.py:295-296
ReadGetUid(p) ==
    /\ At(p, "READ", "get_uid")
    /\ LET c == request[p].ClusterId
           uid == get_uid(describe_cluster(Cluster, c))
       IN  \/ \E err \in Errors :
                /\ Issue(p, DescribeCall(c, err))
                /\ Finish(p, Escape(err))
           \/ /\ Issue(p, DescribeCall(c, Returned_OK))
              /\ IF ReadNotFound(request[p], uid)
                 THEN Finish(p, Raise("NotFound", c))
                 ELSE Goto(p, "get_concurrency_level")
    /\ UNCHANGED <<Cluster, request, before, prev, created>>

\* handlers.py:297-307
ReadGetConcurrencyLevel(p) ==
    /\ At(p, "READ", "get_concurrency_level")
    /\ LET c == request[p].ClusterId
           level == get_concurrency_level(describe_cluster(Cluster, c))
       IN  \/ \E err \in Errors :
                /\ Issue(p, DescribeCall(c, err))
                /\ Finish(p, Raise("InternalFailure",
                                   FailedMessage("Read", err)))
           \/ /\ Issue(p, DescribeCall(c, Returned_OK))
              /\ Finish(p, Success(<<Model(c, level, request[p].UID)>>))
    /\ UNCHANGED <<Cluster, request, before, prev, created>>

(***************************************************************************)
(* Specifications                                                          *)
(***************************************************************************)

Invoke(p) ==
    \/ \E c \in ClusterIds, raw \in RawLevels, uid \in UidValues :
            CreateBegin(p, c, raw, uid)
    \/ \E c \in ClusterIds, raw \in RawLevels, uid, prevUid \in UidValues :
            UpdateBegin(p, c, raw, uid, prevUid)
    \/ \E c \in ClusterIds, uid \in UidValues : DeleteBegin(p, c, uid)
    \/ \E c \in ClusterIds, uid \in UidValues : ReadBegin(p, c, uid)

Step(p) ==
    \/ CreateGetUid(p)
    \/ CreateModifyCluster(p)
    \/ CreateAddTags(p)
    \/ UpdateGetUid(p)
    \/ UpdateModifyCluster(p)
    \/ DeleteGetUid(p)
    \/ DeleteModifyCluster(p)
    \/ DeleteRemoveTags(p)
    \/ ReadGetUid(p)
    \/ ReadGetConcurrencyLevel(p)

\* One invocation at a time: the caller waits for each result.
Next == \E p \in SeqProcs : Invoke(p) \/ Step(p)

Spec == Init /\ [][Next]_vars

(***************************************************************************)
(* Vocabulary of the properties                                            *)
(***************************************************************************)

\* The value of the StepConcurrencyUID tag that cluster c carries in the
\* remote state cl, or None when it carries no such tag.
ObservedTag(cl, c) ==
    LET S == {i \in 1..Len(cl[c].Tags) :
                cl[c].Tags[i].Key = "StepConcurrencyUID"}
    IN  IF S = {} THEN None
        ELSE cl[c].Tags[CHOOSE i \in S : \A j \in S : i <= j].Value

\* The tags of cluster c other than the ownership tag.
OtherTags(cl, c) ==
    LET NotUid(t) == t.Key # "StepConcurrencyUID"
    IN  SelectSeq(cl[c].Tags, NotUid)

Done(p, action) == pc[p] = "done" /\ request[p].action = action

\* Every remote call the invocation of slot p has issued returned normally.
AllCallsOK(p) == \A i \in 1..Len(calls[p]) : calls[p][i].error = ""

\* The invocation of slot p has issued this call, and it returned normally.
Issued(p, api, c, level, tags, keys) ==
    \E i \in 1..Len(calls[p]) :
        calls[p][i] = [api |-> api, ClusterId |-> c,
                       StepConcurrencyLevel |-> level, Tags |-> tags,
                       TagKeys |-> keys, error |-> ""]

Mutating == {"modify_cluster", "add_tags", "remove_tags"}

NoMutatingCall(p) ==
    \A i \in 1..Len(calls[p]) : calls[p][i].api \notin Mutating

\* The level a request declares.
Declared(p) == int(request[p].StepConcurrencyLevel)

Failed(p, kind) ==
    /\ progress[p].status = "FAILED"
    /\ progress[p].errorCode = kind

(***************************************************************************)
(* C1  Round trip.  A Create for ClusterId c with a level L in [1,256], on *)
(* a cluster whose ownership tag is not "cluster:"+c and with every remote *)
(* call succeeding, issues modify_cluster(c, L) and                        *)
(* add_tags(c, StepConcurrencyUID = "cluster:"+c) and returns SUCCESS with *)
(* a model whose UID is "cluster:"+c; a Read issued next with that model   *)
(* returns SUCCESS with that UID and the level the cluster reports, L.     *)
(***************************************************************************)
RoundTripCreate(p) ==
    LET c == request[p].ClusterId
        L == Declared(p)
        uid == "cluster:" \o c
    IN  ( /\ Done(p, "CREATE")
          /\ L >= 1 /\ L <= 256
          /\ ObservedTag(before[p], c) # uid
          /\ AllCallsOK(p) )
        => /\ Issued(p, "modify_cluster", c, L, <<>>, <<>>)
           /\ Issued(p, "add_tags", c, 0,
                     <<[Key |-> "StepConcurrencyUID", Value |-> uid]>>, <<>>)
           /\ progress[p].status = "SUCCESS"
           /\ Len(progress[p].resourceModel) = 1
           /\ progress[p].resourceModel[1].UID = uid
           /\ progress[p].resourceModel[1].ClusterId = c

\* The Read of slot p was issued next after a successful Create, with the
\* model that Create returned.
ReadFollowsCreate(p) ==
    /\ Done(p, "READ")
    /\ prev.request.action = "CREATE"
    /\ prev.progress.status = "SUCCESS"
    /\ Len(prev.progress.resourceModel) = 1
    /\ request[p].ClusterId = prev.progress.resourceModel[1].ClusterId
    /\ request[p].UID = prev.progress.resourceModel[1].UID
    /\ AllCallsOK(p)

RoundTripRead(p) ==
    LET c == request[p].ClusterId
        m == progress[p].resourceModel
    IN  ReadFollowsCreate(p)
        => /\ progress[p].status = "SUCCESS"
           /\ Len(m) = 1
           /\ m[1].UID = "cluster:" \o c
           /\ m[1].StepConcurrencyLevel = Cluster[c].StepConcurrencyLevel
           /\ m[1].StepConcurrencyLevel = int(prev.request.StepConcurrencyLevel)

\* C1: a successful Create and the Read issued next round-trip the UID
\* "cluster:"+ClusterId and the declared level.
RoundTrip == \A p \in Procs : RoundTripCreate(p) /\ RoundTripRead(p)

RoundTripWitness ==
    \E p \in Procs :
        /\ ReadFollowsCreate(p)
        /\ progress[p].status = "SUCCESS"
        /\ progress[p].resourceModel[1].StepConcurrencyLevel = 50
        /\ progress[p].resourceModel[1].UID = "cluster:j-1"

(***************************************************************************)
(* C2  Create collision.  A Create for ClusterId c on a cluster whose      *)
(* ownership tag already equals "cluster:"+c fails with AlreadyExists; in  *)
(* particular a Create for c whose describe call returns after an earlier  *)
(* Create for c returned SUCCESS, with no Delete in between, fails with    *)
(* AlreadyExists.                                                          *)
(***************************************************************************)
CollisionOnTag(p) ==
    LET c == request[p].ClusterId
    IN  ( /\ Done(p, "CREATE")
          /\ Len(calls[p]) >= 1 /\ calls[p][1].error = ""
          /\ ObservedTag(before[p], c) = "cluster:" \o c )
        => Failed(p, "AlreadyExists")

\* The step in which the Create of slot p gets the answer of its describe
\* call.
CreateObserves(p) ==
    /\ pc[p] = "get_uid" /\ request[p].action = "CREATE"
    /\ pc'[p] # "get_uid"
    /\ progress'[p].errorCode # "Unhandled"

CollisionAfterCreate(p) ==
    (CreateObserves(p) /\ request[p].ClusterId \in created)
        => /\ pc'[p] = "done"
           /\ progress'[p].status = "FAILED"
           /\ progress'[p].errorCode = "AlreadyExists"

\* C2: a Create that observes its own UID on the cluster, or follows a
\* successful Create with no Delete in between, fails with AlreadyExists.
CreateCollision ==
    /\ [](\A p \in Procs : CollisionOnTag(p))
    /\ [][\A p \in Procs : CollisionAfterCreate(p)]_vars

CreateCollisionWitness ==
    \E p \in Procs :
        /\ Done(p, "CREATE")
        /\ Failed(p, "AlreadyExists")
        /\ prev.request.action = "CREATE"
        /\ prev.progress.status = "SUCCESS"
        /\ prev.request.ClusterId = request[p].ClusterId

(***************************************************************************)
(* C3  Foreign or missing resource (as claimed).  For every request model, *)
(* one without a UID included, a Read, Update or Delete whose remote calls *)
(* all succeed, on a cluster carrying no StepConcurrencyUID tag, or one    *)
(* whose value is not the UID of the model, fails with NotFound and does   *)
(* not report SUCCESS.                                                     *)
(***************************************************************************)
ObservedForeignOrMissing(p) ==
    LET c == request[p].ClusterId
    IN  /\ pc[p] = "done"
        /\ request[p].action \in {"READ", "UPDATE", "DELETE"}
        /\ Len(calls[p]) >= 1 /\ AllCallsOK(p)
        /\ \/ ObservedTag(before[p], c) = None
           \/ ObservedTag(before[p], c) # request[p].UID

\* C3 (as claimed): Read, Update and Delete on a cluster without a matching
\* ownership tag fail with NotFound, whatever the UID of the model.
ForeignOrMissingNotFound ==
    \A p \in Procs :
        ObservedForeignOrMissing(p)
            => Failed(p, "NotFound") /\ progress[p].status # "SUCCESS"

(***************************************************************************)
(* C4  Range enforcement (as claimed).  For every observed ownership tag,  *)
(* a Create or an Update whose level is outside [1,256] fails with         *)
(* InvalidRequest, and the levels 1 and 256 are not rejected by the range  *)
(* check.                                                                  *)
(***************************************************************************)
RangeChecked(p) ==
    /\ pc[p] = "done"
    /\ request[p].action \in {"CREATE", "UPDATE"}
    /\ progress[p].errorCode # "Unhandled"

RejectedByRangeCheck(p) ==
    /\ Failed(p, "InvalidRequest")
    /\ progress[p].message = "Step Concurency Level must be between 1 and 256"

BoundaryAccepted(p) ==
    (RangeChecked(p) /\ Declared(p) \in {1, 256}) => ~RejectedByRangeCheck(p)

\* C4 (as claimed): a level outside [1,256] gives InvalidRequest for every
\* observed tag, and 1 and 256 pass the range check.
RangeEnforcement ==
    \A p \in Procs :
        /\ (RangeChecked(p) /\ (Declared(p) < 1 \/ Declared(p) > 256))
                => Failed(p, "InvalidRequest")
        /\ BoundaryAccepted(p)

(***************************************************************************)
(* C4 (amended)  An Update whose level is outside [1,256] fails with       *)
(* InvalidRequest for every ownership tag; a Create whose level is outside *)
(* [1,256] fails with InvalidRequest for every observed ownership tag      *)
(* other than "cluster:"+ClusterId, and with AlreadyExists when the        *)
(* observed tag is "cluster:"+ClusterId; the levels 1 and 256 are not      *)
(* rejected by the range check.                                            *)
(***************************************************************************)
\* C4 (amended): as above, except that a Create which observes its own UID
\* fails with AlreadyExists whatever the level.
RangeEnforcementAmended ==
    \A p \in Procs :
        LET c == request[p].ClusterId
            outside == Declared(p) < 1 \/ Declared(p) > 256
        IN  /\ (Done(p, "UPDATE") /\ outside)
                => Failed(p, "InvalidRequest") /\ calls[p] = <<>>
            /\ (Done(p, "CREATE") /\ RangeChecked(p) /\ outside)
                => IF ObservedTag(before[p], c) = "cluster:" \o c
                   THEN Failed(p, "AlreadyExists")
                   ELSE RejectedByRangeCheck(p)
            /\ BoundaryAccepted(p)

RangeEnforcementWitness ==
    /\ \E p \in Procs :
        /\ Done(p, "CREATE") /\ Declared(p) = 257
        /\ Failed(p, "AlreadyExists")
        /\ ObservedTag(before[p], request[p].ClusterId) = "cluster:j-1"
        /\ prev.request.action = "CREATE"
        /\ prev.progress.status = "SUCCESS"
        /\ int(prev.request.StepConcurrencyLevel) = 256

(***************************************************************************)
(* C5  Immutable UID on Update.  An Update whose desired UID differs from  *)
(* the previous UID fails with InvalidRequest, for every level and every   *)
(* ownership tag, and issues no remote call.                               *)
(***************************************************************************)
\* C5: an Update that changes the UID fails with InvalidRequest and issues
\* no remote call.
ImmutableUID ==
    \A p \in Procs :
        (Done(p, "UPDATE") /\ request[p].UID # request[p].previousUID)
            => /\ Failed(p, "InvalidRequest")
               /\ calls[p] = <<>>
               /\ Cluster = before[p]

ImmutableUIDWitness ==
    \E p \in Procs :
        /\ Done(p, "UPDATE")
        /\ request[p].UID # request[p].previousUID
        /\ Declared(p) = 50
        /\ request[p].UID = "cluster:j-1"
        /\ ObservedTag(Cluster, request[p].ClusterId) = "cluster:j-1"
        /\ Failed(p, "InvalidRequest")

(***************************************************************************)
(* C6  Delete.  A Delete on a cluster whose ownership tag equals the       *)
(* declared UID, with every remote call succeeding, issues modify_cluster  *)
(* with level 1 and remove_tags for key StepConcurrencyUID, and returns    *)
(* SUCCESS with no resulting model; a Read issued next on the same cluster *)
(* with the same model fails with NotFound.                                *)
(***************************************************************************)
DeleteOwned(p) ==
    LET c == request[p].ClusterId
    IN  /\ Done(p, "DELETE")
        /\ ObservedTag(before[p], c) # None
        /\ ObservedTag(before[p], c) = request[p].UID
        /\ AllCallsOK(p)

DeleteResets(p) ==
    LET c == request[p].ClusterId
    IN  DeleteOwned(p)
        => /\ Issued(p, "modify_cluster", c, 1, <<>>, <<>>)
           /\ Issued(p, "remove_tags", c, 0, <<>>, <<"StepConcurrencyUID">>)
           /\ progress[p].status = "SUCCESS"
           /\ progress[p].resourceModel = <<>>

\* The Read of slot p was issued next after a successful Delete of an owned
\* resource, on the same cluster with the same model.
ReadFollowsDelete(p) ==
    /\ Done(p, "READ")
    /\ prev.request.action = "DELETE"
    /\ prev.progress.status = "SUCCESS"
    /\ prev.request.UID # None
    /\ request[p].ClusterId = prev.request.ClusterId
    /\ request[p].UID = prev.request.UID
    /\ AllCallsOK(p)

\* C6: a Delete of an owned resource resets the level to 1, removes the tag
\* and returns no model; the Read issued next fails with NotFound.
DeleteThenRead ==
    \A p \in Procs :
        /\ DeleteResets(p)
        /\ ReadFollowsDelete(p) => Failed(p, "NotFound")

DeleteThenReadWitness ==
    \E p \in Procs :
        /\ ReadFollowsDelete(p)
        /\ Failed(p, "NotFound")
        /\ Cluster[request[p].ClusterId].StepConcurrencyLevel = 1

(***************************************************************************)
(* C7  Structured failures (as claimed).  Every failure of a Create, Read, *)
(* Update or Delete is one of AlreadyExists, InvalidRequest, NotFound and  *)
(* InternalFailure; a failure of any remote call of the operation, the     *)
(* describe call that reads the ownership tag included, is an              *)
(* InternalFailure whose message names the operation.                      *)
(***************************************************************************)
OperationName(action) ==
    CASE action = "CREATE" -> "Create"
      [] action = "READ" -> "Read"
      [] action = "UPDATE" -> "Update"
      [] action = "DELETE" -> "Delete"
      [] OTHER -> ""

\* The remote call that ended the invocation of slot p by raising.
LastCallRaised(p) ==
    /\ pc[p] = "done"
    /\ calls[p] # <<>>
    /\ calls[p][Len(calls[p])].error # ""

WrappedFailure(p) ==
    /\ Failed(p, "InternalFailure")
    /\ progress[p].message =
            "Failed " \o OperationName(request[p].action) \o ": "
                \o calls[p][Len(calls[p])].error

\* C7 (as claimed): every failure has one of the four kinds, and a remote
\* call that raises gives InternalFailure naming the operation.
StructuredFailures ==
    \A p \in Procs :
        /\ (pc[p] = "done" /\ progress[p].status = "FAILED")
            => progress[p].errorCode \in
                {"AlreadyExists", "InvalidRequest", "NotFound",
                 "InternalFailure"}
        /\ LastCallRaised(p) => WrappedFailure(p)

(***************************************************************************)
(* C8  Remote failure after reconciliation.  When the ownership and        *)
(* validation checks have passed and a later remote call raises, the       *)
(* operation fails with InternalFailure whose message is                   *)
(* "Failed <Operation>: " followed by the text of the error, and it does   *)
(* not report SUCCESS.                                                     *)
(***************************************************************************)
RaisedAfterReconciliation(p) ==
    /\ LastCallRaised(p)
    /\ Len(calls[p]) >= 2
    /\ calls[p][1].error = ""

\* C8: a remote call that raises after the checks have passed gives
\* InternalFailure with the message "Failed <Operation>: <error text>".
RemoteFailureWrapped ==
    \A p \in Procs :
        RaisedAfterReconciliation(p)
            => WrappedFailure(p) /\ progress[p].status # "SUCCESS"

RemoteFailureWrappedWitness ==
    \E p \in Procs :
        /\ RaisedAfterReconciliation(p)
        /\ request[p].action = "UPDATE"
        /\ calls[p][2].api = "modify_cluster"
        /\ progress[p].message = "Failed Update: ThrottlingException"

(***************************************************************************)
(* C9  No mutation on rejection.  An invocation that ends with             *)
(* AlreadyExists, InvalidRequest or NotFound has issued no modify_cluster, *)
(* add_tags or remove_tags call, and the level and tags of the remote      *)
(* cluster are what they were before the invocation.                       *)
(***************************************************************************)
Rejected(p) ==
    /\ pc[p] = "done"
    /\ progress[p].status = "FAILED"
    /\ progress[p].errorCode \in {"AlreadyExists", "InvalidRequest", "NotFound"}

\* C9: a rejected invocation has issued no mutating call and has left the
\* remote cluster as it was.
NoMutationOnRejection ==
    \A p \in Procs :
        Rejected(p) => NoMutatingCall(p) /\ Cluster = before[p]

NoMutationOnRejectionWitness ==
    \E p \in Procs :
        /\ Rejected(p)
        /\ request[p].action = "DELETE"
        /\ Failed(p, "NotFound")
        /\ Cluster[request[p].ClusterId].StepConcurrencyLevel = 256

(***************************************************************************)
(* C10  Safe retry.  When a Create or a Delete ended with InternalFailure  *)
(* because its attribute write or its tag write raised, the same operation *)
(* invoked next with the same request, its remote calls now succeeding,    *)
(* ends with SUCCESS and leaves the level and the ownership tag that a run *)
(* without failure leaves: the declared level and "cluster:"+ClusterId     *)
(* after Create, level 1 and no ownership tag after Delete.                *)
(***************************************************************************)
RetryOf(p, action) ==
    /\ Done(p, action)
    /\ prev.request.action = action
    /\ prev.progress.errorCode = "InternalFailure"
    /\ prev.raised \in Mutating
    /\ prev.request.ClusterId = request[p].ClusterId
    /\ prev.request.StepConcurrencyLevel = request[p].StepConcurrencyLevel
    /\ action = "DELETE" => prev.request.UID = request[p].UID
    /\ AllCallsOK(p)

\* C10: the retry of a Create or Delete whose attribute or tag write raised
\* succeeds and leaves the state of a run without failure.
SafeRetry ==
    \A p \in Procs :
        LET c == request[p].ClusterId
        IN  /\ RetryOf(p, "CREATE")
                => /\ progress[p].status = "SUCCESS"
                   /\ Cluster[c].StepConcurrencyLevel = Declared(p)
                   /\ ObservedTag(Cluster, c) = "cluster:" \o c
                   /\ OtherTags(Cluster, c) = OtherTags(before[p], c)
            /\ RetryOf(p, "DELETE")
                => /\ progress[p].status = "SUCCESS"
                   /\ Cluster[c].StepConcurrencyLevel = 1
                   /\ ObservedTag(Cluster, c) = None
                   /\ OtherTags(Cluster, c) = OtherTags(before[p], c)

SafeRetryWitness ==
    \E p \in Procs :
        /\ RetryOf(p, "CREATE")
        /\ prev.raised = "add_tags"
        /\ progress[p].status = "SUCCESS"
        /\ Declared(p) = 50
        /\ before[p][request[p].ClusterId].StepConcurrencyLevel = 50
        /\ ObservedTag(before[p], request[p].ClusterId) = None

(***************************************************************************)
(* C11  Synchronous resolution.  Every invocation ends, after at most one  *)
(* pass over its remote calls, with status SUCCESS or FAILED and never     *)
(* with IN_PROGRESS; SUCCESS is returned only when every remote call       *)
(* returned without error and the mutating calls of the operation have all *)
(* been issued: modify_cluster and add_tags for Create, modify_cluster and *)
(* remove_tags for Delete, modify_cluster for Update, none for Read.       *)
(***************************************************************************)
\* The mutating calls the invocation of slot p has issued, in order.
MutatingCalls(p) ==
    LET IsMutating(call) == call.api \in Mutating
        Api(s) == [i \in 1..Len(s) |-> s[i].api]
    IN  Api(SelectSeq(calls[p], IsMutating))

MutatingCallsOf(action) ==
    CASE action = "CREATE" -> <<"modify_cluster", "add_tags">>
      [] action = "DELETE" -> <<"modify_cluster", "remove_tags">>
      [] action = "UPDATE" -> <<"modify_cluster">>
      [] OTHER -> <<>>

\* C11: an invocation ends with SUCCESS or FAILED, never IN_PROGRESS, and
\* with SUCCESS only after all its mutating calls returned without error.
SynchronousResolution ==
    \A p \in Procs :
        /\ pc[p] = "done"
            => /\ progress[p].status \in {"SUCCESS", "FAILED"}
               /\ Len(calls[p]) <= 3
        /\ progress[p].status = "SUCCESS"
            => /\ pc[p] = "done"
               /\ AllCallsOK(p)
               /\ MutatingCalls(p) = MutatingCallsOf(request[p].action)

SynchronousResolutionWitness ==
    \E p \in Procs :
        /\ Done(p, "DELETE")
        /\ progress[p].status = "SUCCESS"
        /\ MutatingCalls(p) = <<"modify_cluster", "remove_tags">>
        /\ prev.request.action = "CREATE"
        /\ prev.progress.status = "FAILED"

(***************************************************************************)
(* C12  UID derivation.  The UID that Create computes, which is the value  *)
(* of the tag it writes and the UID of the model it returns, is            *)
(* "cluster:" + ClusterId: two Creates for the same ClusterId compute the  *)
(* same UID, whatever UID their requests supply and whatever the remote    *)
(* clusters hold, and Creates for distinct ClusterIds compute distinct     *)
(* UIDs.                                                                   *)
(***************************************************************************)
\* The ClusterIds that the Creates of DeriveSpec name.
DeriveClusterIds == ClusterIds \cup {OtherClusterId}

\* The level that the Creates of DeriveSpec declare.
DeriveLevel == <<5, 0>>

\* Every cluster is untagged or carries the UID of some cluster.
DeriveInit ==
    /\ Cluster \in [DeriveClusterIds ->
                        [Tags : UNION {InitialTags(c) : c \in DeriveClusterIds},
                         StepConcurrencyLevel : InitialLevels]]
    /\ \A c \in DeriveClusterIds : Cluster[c].Tags \in InitialTags(c)
    /\ pc = [p \in Procs |-> "idle"]
    /\ request = [p \in Procs |-> NoRequest]
    /\ progress = [p \in Procs |-> InProgress]
    /\ calls = [p \in Procs |-> <<>>]
    /\ before = [p \in Procs |-> <<>>]
    /\ prev = Returned(NoRequest, InProgress, <<>>, <<>>)
    /\ created = {}

\* Each slot runs one Create, for any of the ClusterIds and with any UID
\* supplied in the request.
DeriveNext ==
    \E p \in Procs :
        \/ /\ pc[p] = "idle"
           /\ \E c \in DeriveClusterIds, uid \in UidValues :
                CreateBegin(p, c, DeriveLevel, uid)
        \/ CreateGetUid(p)
        \/ CreateModifyCluster(p)
        \/ CreateAddTags(p)

DeriveSpec == DeriveInit /\ [][DeriveNext]_vars

\* The UIDs that the Create of slot p has put in an add_tags call or in the
\* model it returned.
DerivedUIDs(p) ==
    {calls[p][i].Tags[1].Value :
        i \in {j \in 1..Len(calls[p]) : calls[p][j].api = "add_tags"}}
    \cup {progress[p].resourceModel[i].UID :
            i \in 1..Len(progress[p].resourceModel)}

\* C12: the UID a Create computes is "cluster:"+ClusterId; it is the same
\* for the same ClusterId and differs for distinct ClusterIds, whatever the
\* request supplies as UID and whatever the clusters hold.
UIDDerivation ==
    \A p, q \in Procs :
        \A u \in DerivedUIDs(p), v \in DerivedUIDs(q) :
            /\ u = "cluster:" \o request[p].ClusterId
            /\ (request[p].ClusterId = request[q].ClusterId) <=> (u = v)

UIDDerivationWitness ==
    /\ Done(1, "CREATE") /\ Done(2, "CREATE")
    /\ progress[1].status = "SUCCESS" /\ progress[2].status = "SUCCESS"
    /\ request[1].ClusterId = "j-1" /\ request[2].ClusterId = "j-2"
    /\ request[1].UID = "cluster:j-2" /\ request[2].UID = "cluster:j-2"
    /\ ObservedTag(before[1], "j-1") = "cluster:j-2"
    /\ DerivedUIDs(1) = {"cluster:j-1"} /\ DerivedUIDs(2) = {"cluster:j-2"}

(***************************************************************************)
(* C13  Partial failure window of Create.  Create issues add_tags only     *)
(* directly after a modify_cluster call that returned without error, so    *)
(* the ownership tag changes only after the level has been written; when   *)
(* add_tags raises after modify_cluster succeeded, the Create fails with   *)
(* InternalFailure, it has issued no further call, the remote level is the *)
(* declared level and the tags are what they were before the Create.       *)
(***************************************************************************)
ModifyBeforeAddTags(p) ==
    LET c == request[p].ClusterId
    IN  request[p].action = "CREATE"
        => /\ \A i \in 1..Len(calls[p]) :
                calls[p][i].api = "add_tags"
                    => /\ i > 1
                       /\ calls[p][i - 1].api = "modify_cluster"
                       /\ calls[p][i - 1].error = ""
                       /\ calls[p][i - 1].StepConcurrencyLevel = Declared(p)
           /\ before[p][c].Tags # Cluster[c].Tags
                => Issued(p, "modify_cluster", c, Declared(p), <<>>, <<>>)

\* The Create of slot p ended because its add_tags call raised.
AddTagsRaised(p) ==
    /\ Done(p, "CREATE")
    /\ \E i \in 1..Len(calls[p]) :
            calls[p][i].api = "add_tags" /\ calls[p][i].error # ""

\* C13: modify_cluster comes strictly before add_tags, and a failure of
\* add_tags leaves the declared level in place and the tags untouched.
CreatePartialFailure ==
    \A p \in Procs :
        LET c == request[p].ClusterId
        IN  /\ ModifyBeforeAddTags(p)
            /\ AddTagsRaised(p)
                => /\ Failed(p, "InternalFailure")
                   /\ Len(calls[p]) = 3
                   /\ MutatingCalls(p) = <<"modify_cluster", "add_tags">>
                   /\ Cluster[c].StepConcurrencyLevel = Declared(p)
                   /\ Cluster[c].Tags = before[p][c].Tags

CreatePartialFailureWitness ==
    \E p \in Procs :
        /\ AddTagsRaised(p)
        /\ Declared(p) = 256
        /\ before[p][request[p].ClusterId].StepConcurrencyLevel = 1
        /\ Cluster[request[p].ClusterId].StepConcurrencyLevel = 256
        /\ ObservedTag(Cluster, request[p].ClusterId) = "cluster:j-2"

(***************************************************************************)
(* C14  Update writes the level only.  An Update on a cluster whose        *)
(* ownership tag equals the declared UID, with an unchanged UID and a      *)
(* level L in [1,256], whose remote calls return without error, issues     *)
(* exactly one mutating call, modify_cluster with level L, and returns     *)
(* SUCCESS.  No Update, whatever its outcome, issues add_tags or           *)
(* remove_tags, and the tags of the cluster are what they were before it.  *)
(***************************************************************************)
UpdateOwned(p) ==
    LET c == request[p].ClusterId
    IN  /\ Done(p, "UPDATE")
        /\ request[p].UID = request[p].previousUID
        /\ Declared(p) >= 1 /\ Declared(p) <= 256
        /\ ObservedTag(before[p], c) # None
        /\ ObservedTag(before[p], c) = request[p].UID
        /\ AllCallsOK(p)

ReadAnswered(p) ==
    /\ Done(p, "READ")
    /\ Len(calls[p]) >= 1
    /\ AllCallsOK(p)

ReadReports(p) ==
    LET c == request[p].ClusterId
        m == progress[p].resourceModel
    IN  ReadAnswered(p)
        => /\ progress[p].status = "SUCCESS"
                <=> ObservedTag(before[p], c) = request[p].UID
           /\ progress[p].status # "SUCCESS" => Failed(p, "NotFound")
           /\ progress[p].status = "SUCCESS"
                => /\ Len(m) = 1
                   /\ m[1].StepConcurrencyLevel =
                        Cluster[c].StepConcurrencyLevel
                   /\ m[1].ClusterId = c
                   /\ m[1].UID = request[p].UID

ReachableLevels ==
    InitialLevels
        \cup {l \in {int(raw) : raw \in RawLevels} :
                l >= MinLevel /\ l <= MaxLevel}

\* The remote clusters as earlier invocations can have left them.
ReachableClusters ==
    {cl \in [ClusterIds ->
                [Tags : UNION {InitialTags(c) : c \in ClusterIds},
                 StepConcurrencyLevel : ReachableLevels]] :
        \A c \in ClusterIds : cl[c].Tags \in InitialTags(c)}

ConcInit ==
    /\ Cluster \in ReachableClusters
    /\ pc = [p \in Procs |-> "idle"]
    /\ request = [p \in Procs |-> NoRequest]
    /\ progress = [p \in Procs |-> InProgress]
    /\ calls = [p \in Procs |-> <<>>]
    /\ before = [p \in Procs |-> <<>>]
    /\ prev = Returned(NoRequest, InProgress, <<>>, <<>>)
    /\ created = {}

\* The runtime invokes a handler in a slot that has run none yet.
ConcInvoke(p) == pc[p] = "idle" /\ Invoke(p)

\* Each slot runs one invocation; the remote calls of the two invocations
\* interleave in every order.
ConcNext == \E p \in Procs : ConcInvoke(p) \/ Step(p)

ConcSpec == ConcInit /\ [][ConcNext]_vars

(***************************************************************************)
(* C16  Level range invariant.  Every modify_cluster call that a handler   *)
(* issues carries a level in [1,256]; so the level of a cluster that       *)
(* starts in [1,256] is in [1,256] in every state, under every             *)
(* interleaving of the remote calls of Create, Read, Update and Delete     *)
(* invocations with arbitrary requests.                                    *)
(***************************************************************************)
\* C16: every modify_cluster call carries a level in [1,256], and the remote
\* level stays in [1,256].
LevelInRange ==
    /\ \A p \in Procs : \A i \in 1..Len(calls[p]) :
            calls[p][i].api = "modify_cluster"
                => /\ calls[p][i].StepConcurrencyLevel >= 1
                   /\ calls[p][i].StepConcurrencyLevel <= 256
    /\ \A c \in DOMAIN Cluster :
            /\ Cluster[c].StepConcurrencyLevel >= 1
            /\ Cluster[c].StepConcurrencyLevel <= 256

LevelInRangeWitness ==
    /\ Done(1, "CREATE") /\ progress[1].status = "SUCCESS"
    /\ Declared(1) = 256
    /\ Done(2, "DELETE") /\ progress[2].status = "SUCCESS"
    /\ Cluster["j-1"].StepConcurrencyLevel = 256
    /\ ObservedTag(Cluster, "j-1") = None

(***************************************************************************)
(* C18  Concurrent Creates (as claimed).  Two Creates for the same         *)
(* ClusterId, with valid levels, on a cluster that initially has no        *)
(* ownership tag, with no remote call failing: under every interleaving of *)
(* their remote calls one returns SUCCESS and the other fails with         *)
(* AlreadyExists.                                                          *)
(***************************************************************************)
\* Slots 1 and 2 run Creates for the same ClusterId, and the cluster had no
\* ownership tag when the first of them began.
TwoCreates ==
    LET c == request[1].ClusterId
    IN  /\ request[1].action = "CREATE" /\ request[2].action = "CREATE"
        /\ request[2].ClusterId = c
        /\ \E p \in Procs : ObservedTag(before[p], c) = None

TwoCreatesReturned ==
    /\ TwoCreates
    /\ \A p \in Procs :
        /\ pc[p] = "done" /\ AllCallsOK(p)
        /\ Declared(p) >= 1 /\ Declared(p) <= 256

\* C18 (as claimed): of two concurrent Creates for one ClusterId exactly one
\* returns SUCCESS and the other fails with AlreadyExists.
ConcurrentCreatesCollide ==
    TwoCreatesReturned
        => \E p, q \in Procs :
                /\ p # q
                /\ progress[p].status = "SUCCESS"
                /\ Failed(q, "AlreadyExists")

(***************************************************************************)
(* C18 (amended)  Two Creates for the same ClusterId on a cluster that     *)
(* initially has no ownership tag: a Create whose describe call returns    *)
(* fails with AlreadyExists exactly when the add_tags call of the other    *)
(* Create has returned by then.  With valid levels and no remote call      *)
(* failing, at least one of them returns SUCCESS and the other returns     *)
(* SUCCESS or fails with AlreadyExists; both return SUCCESS when each      *)
(* describe call returns before the other's add_tags call.                 *)
(***************************************************************************)
\* The add_tags call of the Create of slot q has returned.
AddTagsReturned(q) ==
    \E i \in 1..Len(calls[q]) :
        calls[q][i].api = "add_tags" /\ calls[q][i].error = ""

CollisionSeen(p) ==
    (TwoCreates /\ CreateObserves(p))
        => (progress'[p].errorCode = "AlreadyExists"
                <=> \E q \in Procs \ {p} : AddTagsReturned(q))

\* C18 (amended): a Create collides exactly when its describe call returns
\* after the other Create's add_tags call; otherwise both succeed.
ConcurrentCreatesAmended ==
    /\ [][\A p \in Procs : CollisionSeen(p)]_vars
    /\ [](TwoCreatesReturned
            => /\ \E p \in Procs : progress[p].status = "SUCCESS"
               /\ \A p \in Procs :
                    \/ progress[p].status = "SUCCESS"
                    \/ Failed(p, "AlreadyExists")
               /\ ObservedTag(Cluster, request[1].ClusterId)
                    = "cluster:" \o request[1].ClusterId)

ConcurrentCreatesWitness ==
    /\ TwoCreatesReturned
    /\ progress[1].status = "SUCCESS" /\ progress[2].status = "SUCCESS"
    /\ Declared(1) = 50 /\ Declared(2) = 256
    /\ Cluster[request[1].ClusterId].StepConcurrencyLevel = 50

(***************************************************************************)
(* C19  Ownership under interleaving (as claimed).  An Update or a Delete  *)
(* changes the level of a cluster only if, at the moment its               *)
(* modify_cluster call takes effect, the cluster carries a                 *)
(* StepConcurrencyUID tag whose value is the declared UID, whatever remote *)
(* calls of another invocation run between its describe call and its      *)
(* modify_cluster call; and once a Delete has returned SUCCESS, and while  *)
(* no Create runs, the cluster has no ownership tag and its level is 1.    *)
(***************************************************************************)
\* The modify_cluster call of the Update or Delete of slot p takes effect
\* and changes the level.
LevelChangedBy(p) ==
    LET c == request[p].ClusterId
    IN  /\ pc[p] = "modify_cluster"
        /\ request[p].action \in {"UPDATE", "DELETE"}
        /\ pc'[p] # pc[p]
        /\ Cluster'[c].StepConcurrencyLevel # Cluster[c].StepConcurrencyLevel

OwnedAtModify(p) ==
    LET c == request[p].ClusterId
    IN  LevelChangedBy(p)
        => /\ ObservedTag(Cluster, c) # None
           /\ ObservedTag(Cluster, c) = request[p].UID

AfterDelete(p) ==
    LET c == request[p].ClusterId
    IN  ( /\ Done(p, "DELETE")
          /\ progress[p].status = "SUCCESS"
          /\ \A q \in Procs : request[q].action # "CREATE" )
        => /\ ObservedTag(Cluster, c) = None
           /\ Cluster[c].StepConcurrencyLevel = 1

\* C19 (as claimed): an Update or Delete changes the level only of a cluster
\* tagged with the declared UID at that moment, and after a successful
\* Delete, with no Create, the cluster is untagged at level 1.
OwnershipBeforeMutation ==
    /\ [][\A p \in Procs : OwnedAtModify(p)]_vars
    /\ [](\A p \in Procs : AfterDelete(p))

(***************************************************************************)
(* C17  No foreign-claim check on Create.  A Create for ClusterId c with a *)
(* level L in [1,256], whose remote calls return without error, on a       *)
(* cluster whose StepConcurrencyUID tag is absent or has a value other     *)
(* than "cluster:"+c, issues describe_cluster, modify_cluster(L) and       *)
(* add_tags, the same for a foreign tag as for no tag, returns SUCCESS and *)
(* leaves one StepConcurrencyUID tag, with value "cluster:"+c.  A Read,    *)
(* Update or Delete made next with the former tag value as its UID, whose  *)
(* describe call returns, fails with NotFound.                             *)
(***************************************************************************)
CreateOverForeign(p) ==
    LET c == request[p].ClusterId
    IN  /\ Done(p, "CREATE")
        /\ Declared(p) >= 1 /\ Declared(p) <= 256
        /\ ObservedTag(before[p], c) # "cluster:" \o c
        /\ AllCallsOK(p)

UidTagCount(cl, c) ==
    Cardinality({i \in 1..Len(cl[c].Tags) :
                    cl[c].Tags[i].Key = "StepConcurrencyUID"})

ForeignTagReplaced(p) ==
    LET c == request[p].ClusterId
        own == [Key |-> "StepConcurrencyUID", Value |-> "cluster:" \o c]
    IN  CreateOverForeign(p)
        => /\ Len(calls[p]) = 3
           /\ calls[p][1].api = "describe_cluster"
           /\ calls[p][2].api = "modify_cluster"
           /\ calls[p][2].StepConcurrencyLevel = Declared(p)
           /\ calls[p][3].api = "add_tags"
           /\ calls[p][3].Tags = <<own>>
           /\ progress[p].status = "SUCCESS"
           /\ ObservedTag(Cluster, c) = "cluster:" \o c
           /\ UidTagCount(Cluster, c) = 1
           /\ OtherTags(Cluster, c) = OtherTags(before[p], c)
           /\ Cluster[c].StepConcurrencyLevel = Declared(p)

\* The Read, Update or Delete of slot p was made next after a Create that
\* succeeded on a cluster with a foreign tag, with that former tag value as
\* its UID.
FormerOwnerReturns(p) ==
    /\ pc[p] = "done"
    /\ request[p].action \in {"READ", "UPDATE", "DELETE"}
    /\ prev.request.action = "CREATE"
    /\ prev.progress.status = "SUCCESS"
    /\ prev.observed # None
    /\ prev.observed # "cluster:" \o prev.request.ClusterId
    /\ request[p].ClusterId = prev.request.ClusterId
    /\ request[p].UID = prev.observed
    /\ Len(calls[p]) >= 1 /\ AllCallsOK(p)

\* C17: Create overwrites a foreign ownership tag as if the cluster were
\* untagged, and the former owner's Read, Update and Delete then fail with
\* NotFound.
ForeignClaimOverwritten ==
    \A p \in Procs :
        /\ ForeignTagReplaced(p)
        /\ FormerOwnerReturns(p)
            => /\ Failed(p, "NotFound")
               /\ NoMutatingCall(p)
               /\ Cluster = before[p]

ForeignClaimOverwrittenWitness ==
    \E p \in Procs :
        /\ FormerOwnerReturns(p)
        /\ request[p].action = "DELETE"
        /\ request[p].UID = "cluster:j-2"
        /\ Failed(p, "NotFound")
        /\ ObservedTag(Cluster, request[p].ClusterId) = "cluster:j-1"
        /\ Cluster[request[p].ClusterId].StepConcurrencyLevel = 256

====
